---- MODULE Spec2Model ----
(***************************************************************************)
(* The persistent commit log of dclog: store, index, segment and Log.       *)
(*                                                                          *)
(* Files are modelled with their contents: a store file is a sequence of    *)
(* bytes, an index file is its length plus the 12-byte entries written      *)
(* through the shared memory map.  Segment objects live in a heap keyed by  *)
(* their base offset; Log.segments is a sequence of such keys and           *)
(* Log.activeSegment a key, so that a pointer to a segment that is no       *)
(* longer in the list is expressible.                                       *)
(*                                                                          *)
(* Log.Append, Log.Read, Log.Truncate, LowestOffset and HighestOffset hold  *)
(* the log's RWMutex for their whole body, so each is one atomic action and *)
(* the order of the actions is the order in which the calls take the lock.  *)
(* A Log is not used after Close or Reset; NewLog then opens the directory  *)
(* again with the same config.                                              *)
(* uint64 arithmetic is not wrapped: every offset of the model is far       *)
(* below 2^64.  bufio's 4096-byte buffer is never filled by the bounded     *)
(* stores of the model, so a store write never reaches the file before a    *)
(* flush.                                                                   *)
(*                                                                          *)
(* Specifications: Spec is the Log; SpecCrash adds the end of the process   *)
(* without Close; SpecReader adds Log.Reader; SpecSeg, SpecIdx and          *)
(* SpecStore drive a segment, an index and a store on their own, as the     *)
(* package's tests do; SpecThreads splits the calls on a Log into steps of  *)
(* two goroutines; SpecServer is the in-memory Log of package server with   *)
(* its HTTP handlers.  All of them share the variables below.               *)
(***************************************************************************)
EXTENDS Integers, Sequences, FiniteSets, TLC

VARIABLES
    Config,         \* Log.Config after NewLog's defaults
    dirExists,      \* whether the directory Log.Dir exists
    files,          \* the directory: base offset -> the segment's two files
    segs,           \* heap of segment objects, keyed by base offset
    segments,       \* Log.segments: sequence of heap keys
    activeSegment,  \* Log.activeSegment: heap key
    phase,          \* "open", "closed" (after Close/Remove/Reset), "fault" (panic)
    last,           \* the last call and what it returned (for Truncate, ret is what
                    \* HighestOffset would have returned when it was called)
    expect,         \* NewLog's next offset, plus one for every Append that succeeded since
    appended,       \* offset -> value stored by segment.Append
    nfailed,        \* number of Appends that returned an error
    ioFaulted,      \* whether an I/O error was ever injected
    snap            \* what the log answered when it was last closed

vars == <<Config, dirExists, files, segs, segments, activeSegment, phase, last,
          expect, appended, nfailed, ioFaulted, snap>>

----------------------------------------------------------------------------
(* Bounds of the model *)

MaxRecords == 3          \* offsets handed out per run: InitialOffset .. InitialOffset+MaxRecords-1
MaxFailedAppends == 1    \* Appends that may fail per run

(* Program constants *)

lenWidth == 8
entWidth == 12
DefaultMaxBytes == 1024

(* Inputs *)

Values == { <<97>>, <<97, 98, 99>> }              \* "a", "abc"
Limits == { <<0, 0>>, <<12, 0>>, <<0, 24>>, <<0, 18>> }   \* MaxStoreBytes, MaxIndexBytes as passed
InitialOffsets == { 0, 1 }                        \* Config.Segment.InitialOffset
MaxInitial == CHOOSE m \in InitialOffsets : \A n \in InitialOffsets : n <= m
Offsets == 0 .. (MaxInitial + MaxRecords)         \* arguments of Read and Truncate

----------------------------------------------------------------------------
(* Helpers *)

Min(S) == CHOOSE m \in S : \A n \in S : m <= n

Put(f, k, v) == [x \in (DOMAIN f) \cup {k} |-> IF x = k THEN v ELSE f[x]]

Drop(f, R) == [x \in (DOMAIN f) \ R |-> f[x]]

Max(S) == CHOOSE m \in S : \A n \in S : n <= m

(* the sort with its comparison reversed *)
RECURSIVE SortedDescending(_)
SortedDescending(S) ==
    IF S = {} THEN <<>> ELSE <<Max(S)>> \o SortedDescending(S \ {Max(S)})

RECURSIVE SortedSeq(_)
SortedSeq(S) == IF S = {} THEN <<>> ELSE <<Min(S)>> \o SortedSeq(S \ {Min(S)})

(* binary.BigEndian: n as w bytes, most significant first *)
RECURSIVE BigEndian(_, _)
BigEndian(n, w) == IF w = 0 THEN <<>> ELSE Append(BigEndian(n \div 256, w - 1), n % 256)

RECURSIVE Uint(_)
Uint(b) == IF b = <<>> THEN 0 ELSE 256 * Uint(SubSeq(b, 1, Len(b) - 1)) + b[Len(b)]

(* protobuf varint *)
RECURSIVE Varint(_)
Varint(n) == IF n < 128 THEN <<n>> ELSE <<128 + (n % 128)>> \o Varint(n \div 128)

RECURSIVE ParseVarint(_, _)
ParseVarint(b, i) ==
    IF b[i] < 128 THEN [val |-> b[i], next |-> i + 1]
    ELSE LET r == ParseVarint(b, i + 1)
         IN  [val |-> (b[i] - 128) + 128 * r.val, next |-> r.next]

(* proto.Marshal(record): field 1 = value (bytes), field 2 = offset (varint);
   proto3 leaves out a field holding its zero value *)
Marshal(value, offset) ==
    (IF value = <<>> THEN <<>> ELSE <<10>> \o Varint(Len(value)) \o value)
    \o (IF offset = 0 THEN <<>> ELSE <<16>> \o Varint(offset))

RECURSIVE UnmarshalFrom(_, _, _)
UnmarshalFrom(b, i, rec) ==
    IF i > Len(b) THEN rec
    ELSE IF b[i] = 10
         THEN LET n == ParseVarint(b, i + 1)
              IN  UnmarshalFrom(b, n.next + n.val,
                                [rec EXCEPT !.value = SubSeq(b, n.next, n.next + n.val - 1)])
         ELSE LET o == ParseVarint(b, i + 1)
              IN  UnmarshalFrom(b, o.next, [rec EXCEPT !.offset = o.val])

NoRecord == [value |-> <<>>, offset |-> 0]

Unmarshal(b) == UnmarshalFrom(b, 1, NoRecord)

----------------------------------------------------------------------------
(* store *)

(* store.Append counting the payload only: w without lenWidth *)
storeAppendPayloadOnly(st, p) ==
    [store |-> [size |-> st.size + Len(p),
                buf  |-> st.buf \o BigEndian(Len(p), lenWidth) \o p],
     n     |-> Len(p),
     pos   |-> st.size]

(* store.Append returning the size after the write as the position *)
storeAppendPosAfter(st, p) ==
    [store |-> [size |-> st.size + lenWidth + Len(p),
                buf  |-> st.buf \o BigEndian(Len(p), lenWidth) \o p],
     n     |-> lenWidth + Len(p),
     pos   |-> st.size + lenWidth + Len(p)]

(* store.Append: the length and the payload go to the write buffer *)
storeAppend(st, p) ==
    [store |-> [size |-> st.size + lenWidth + Len(p),
                buf  |-> st.buf \o BigEndian(Len(p), lenWidth) \o p],
     n     |-> lenWidth + Len(p),
     pos   |-> st.size]

(* a read that does not flush: only the bytes already in the file are seen *)
NotFlushed(fileBytes, st) == fileBytes

(* buf.Flush: the buffered bytes reach the file *)
Flushed(fileBytes, st) == fileBytes \o st.buf

(* store.Read(pos), after the flush: the bytes of the file are `bytes` *)
storeRead(bytes, pos) ==
    IF pos + lenWidth > Len(bytes) THEN [err |-> "io", b |-> <<>>]
    ELSE LET n == Uint(SubSeq(bytes, pos + 1, pos + lenWidth))
         IN  IF pos + lenWidth + n > Len(bytes) THEN [err |-> "io", b |-> <<>>]
             ELSE [err |-> "", b |-> SubSeq(bytes, pos + lenWidth + 1, pos + lenWidth + n)]

----------------------------------------------------------------------------
(* index *)

ZeroEntry == [off |-> 0, pos |-> 0]

(* the entry in slot i (from 0) of the mapped file *)
Slot(ents, i) == IF i + 1 <= Len(ents) THEN ents[i + 1] ELSE ZeroEntry

(* index.Write: end of space when size + entWidth > MaxIndexBytes *)
indexWriteFails(size) == size + entWidth > Config.MaxIndexBytes

indexWrite(ents, size, off, pos) ==
    LET slot == size \div entWidth
    IN  [i \in 1 .. (slot + 1) |-> IF i = slot + 1 THEN [off |-> off, pos |-> pos]
                                   ELSE Slot(ents, i - 1)]

(* index.Read taking the slot after the last entry for a negative argument *)
indexReadPastLast(ents, size, in) ==
    IF size = 0 THEN [err |-> "EOF", off |-> 0, pos |-> 0]
    ELSE LET i == IF in < 0 THEN size \div entWidth ELSE in
         IN  IF in >= 0 /\ i * entWidth >= size THEN [err |-> "EOF", off |-> 0, pos |-> 0]
             ELSE [err |-> "", off |-> Slot(ents, i).off, pos |-> Slot(ents, i).pos]

(* index.Read(in) *)
indexRead(ents, size, in) ==
    IF size = 0 THEN [err |-> "EOF", off |-> 0, pos |-> 0]
    ELSE LET i == IF in < 0 THEN (size \div entWidth) - 1 ELSE in
         IN  IF i * entWidth >= size THEN [err |-> "EOF", off |-> 0, pos |-> 0]
             ELSE [err |-> "", off |-> Slot(ents, i).off, pos |-> Slot(ents, i).pos]

----------------------------------------------------------------------------
(* segment *)

(* newSegment(dir, baseOffset, c) on the files `f` of that base offset, created
   empty when they do not exist; the index file is extended to MaxIndexBytes *)
EmptyFiles == [store |-> <<>>, idxLen |-> 0, ents |-> <<>>]

FilesOf(fs, base) == IF base \in DOMAIN fs THEN fs[base] ELSE EmptyFiles

newSegment(fs, base) ==
    LET f    == FilesOf(fs, base)
        size == f.idxLen
        lastE == indexRead(f.ents, size, -1)
    IN  [seg  |-> [baseOffset |-> base,
                   nextOffset |-> IF lastE.err # "" THEN base ELSE base + lastE.off + 1,
                   store      |-> [size |-> Len(f.store), buf |-> <<>>],
                   index      |-> [size |-> size],
                   open       |-> TRUE],
         file |-> [f EXCEPT !.idxLen = Config.MaxIndexBytes]]

(* IsMaxed with > for >= : a segment filled exactly to its limit is not rolled *)
IsMaxedStrict(s) ==
    s.store.size > Config.MaxStoreBytes \/ s.index.size > Config.MaxIndexBytes

(* segment.IsMaxed *)
IsMaxed(s) ==
    s.store.size >= Config.MaxStoreBytes \/ s.index.size >= Config.MaxIndexBytes

(* segment.Close on an open segment: index.Close truncates the index file to
   its logical size, store.Close flushes the buffer *)
closedSeg(s) == [s EXCEPT !.open = FALSE, !.store.buf = <<>>]

closedFile(s, f) == [f EXCEPT !.idxLen = s.index.size, !.store = Flushed(f.store, s.store)]

----------------------------------------------------------------------------
(* Log *)

nil == -1

(* Log.setup: the base offsets of the directory's files, sorted, each twice
   (store and index); one segment for every second element; a segment at
   InitialOffset when the list is still empty.  ReadDir fails when the
   directory does not exist. *)
RECURSIVE Doubled(_)
Doubled(s) == IF s = <<>> THEN <<>> ELSE <<s[1], s[1]>> \o Doubled(Tail(s))

RECURSIVE openAll(_, _, _)
openAll(bases, i, st) ==
    IF i > Len(bases) THEN st
    ELSE LET n == newSegment(st.files, bases[i])
         IN  openAll(bases, i + 2,
                     [files         |-> Put(st.files, bases[i], n.file),
                      segs          |-> Put(st.segs, bases[i], n.seg),
                      segments      |-> Append(st.segments, bases[i]),
                      activeSegment |-> bases[i]])

setup(exists, st) ==
    IF ~exists THEN [err |-> "io", st |-> st]
    ELSE LET baseOffsets == Doubled(SortedSeq(DOMAIN st.files))
             opened      == openAll(baseOffsets, 1, st)
         IN  IF opened.segments = <<>>
             THEN [err |-> "", st |-> openAll(<<Config.InitialOffset>>, 1, opened)]
             ELSE [err |-> "", st |-> opened]

(* Log.Read: the first segment of the list whose range holds the offset *)
Covers(b, offset) == segs[b].baseOffset <= offset /\ offset < segs[b].nextOffset

(* the scan of Log.Read with offset <= seg.nextOffset for offset < seg.nextOffset *)
readSegInclusive(offset) ==
    LET hits == {i \in 1 .. Len(segments) :
                    /\ segs[segments[i]].baseOffset <= offset
                    /\ offset <= segs[segments[i]].nextOffset}
    IN  IF hits = {} THEN nil ELSE segments[Min(hits)]

readSeg(offset) ==
    LET hits == {i \in 1 .. Len(segments) : Covers(segments[i], offset)}
    IN  IF hits = {} THEN nil ELSE segments[Min(hits)]

(* segment.Read *)
segmentRead(s, f, offset) ==
    LET e == indexRead(f.ents, s.index.size, offset - s.baseOffset)
    IN  IF ~s.open THEN [err |-> "closed", rec |-> NoRecord]
        ELSE IF e.err # "" THEN [err |-> e.err, rec |-> NoRecord]
        ELSE LET r == storeRead(Flushed(f.store, s.store), e.pos)
             IN  IF r.err # "" THEN [err |-> r.err, rec |-> NoRecord]
                 ELSE [err |-> "", rec |-> Unmarshal(r.b)]

LogRead(offset) ==
    IF readSeg(offset) = nil THEN [err |-> "OutOfRange", rec |-> NoRecord]
    ELSE segmentRead(segs[readSeg(offset)], FilesOf(files, readSeg(offset)), offset)

(* Log.LowestOffset and Log.HighestOffset, defined on a non-empty list *)
LowestOffset == segs[segments[1]].baseOffset

HighestOffset ==
    LET off == segs[segments[Len(segments)]].nextOffset
    IN  IF off = 0 THEN off ELSE off - 1

----------------------------------------------------------------------------
(* What a call returned *)

Result(op, arg, err, ret, rec) ==
    [op |-> op, arg |-> arg, err |-> err, ret |-> ret, rec |-> rec]

(* snap.at: "none"; "closed" from Log.Close to NewLog; "reopened" from NewLog
   until the log is changed; "appended" right after the first Append that
   follows NewLog *)
NoSnap ==
    [at |-> "none", bases |-> <<>>, lowest |-> 0, highest |-> 0,
     reads |-> [o \in Offsets |-> [err |-> "", rec |-> NoRecord]]]

Snapshot ==
    IF segments = <<>> THEN NoSnap
    ELSE [at |-> "closed", bases |-> segments, lowest |-> LowestOffset,
          highest |-> HighestOffset, reads |-> [o \in Offsets |-> LogRead(o)]]

SnapAfterQuery == IF snap.at = "reopened" THEN snap ELSE NoSnap

SnapAfterAppend == IF snap.at = "reopened" THEN [snap EXCEPT !.at = "appended"] ELSE NoSnap

SnapAfterNewLog == IF snap.at = "closed" THEN [snap EXCEPT !.at = "reopened"] ELSE NoSnap

----------------------------------------------------------------------------
(* Initial state: NewLog on a fresh, empty directory *)

Defaulted(n) == IF n = 0 THEN DefaultMaxBytes ELSE n

Init ==
    /\ \E lim \in Limits, io \in InitialOffsets :
          \* a store limit is tried with InitialOffset 0, where not every record rolls
          /\ lim[1] = 0 \/ io = 0
          /\ Config = [MaxStoreBytes |-> Defaulted(lim[1]),
                       MaxIndexBytes |-> Defaulted(lim[2]), InitialOffset |-> io]
    /\ dirExists = TRUE
    /\ LET e  == [x \in {} |-> 0]
           r  == setup(TRUE, [files |-> e, segs |-> e, segments |-> <<>>,
                              activeSegment |-> nil])
       IN  /\ files = r.st.files
           /\ segs = r.st.segs
           /\ segments = r.st.segments
           /\ activeSegment = r.st.activeSegment
    /\ phase = "open"
    /\ last = Result("NewLog", 0, "", 0, NoRecord)
    /\ expect = Config.InitialOffset
    /\ appended = [x \in {} |-> <<>>]
    /\ nfailed = 0
    /\ ioFaulted = FALSE
    /\ snap = NoSnap

----------------------------------------------------------------------------
(* Log.Append appending to the first segment of the list *)
firstSegment == IF segments = <<>> THEN activeSegment ELSE segments[1]

(* the segment Log.Append appends to: l.activeSegment *)
appendSegment == activeSegment

(* Log.Append(record) with record.Value = value.  segment.Append writes the
   store, then the index, then advances nextOffset; when the segment is maxed
   afterwards Log.newSegment(offset + 1) opens the next one.  newSegment is the
   only step of Append that makes system calls (open, stat, truncate, mmap):
   `fault` is such a call failing, before anything is created. *)
LogAppend(value, fault) ==
    /\ phase = "open"
    /\ segs[appendSegment].open
    /\ LET s   == segs[appendSegment]
           cur == s.nextOffset
           p   == Marshal(value, cur)
           sa  == storeAppend(s.store, p)
           f   == files[appendSegment]
       IN  /\ cur < Config.InitialOffset + MaxRecords
           /\ IF indexWriteFails(s.index.size)
              THEN \* index.Write returns io.EOF: the store keeps the bytes
                   /\ ~fault
                   /\ nfailed < MaxFailedAppends
                   /\ segs' = [segs EXCEPT ![appendSegment].store = sa.store]
                   /\ last' = Result("Append", 0, "EOF", 0, NoRecord)
                   /\ nfailed' = nfailed + 1
                   /\ UNCHANGED <<files, segments, activeSegment, expect, appended, ioFaulted>>
              ELSE LET s1 == [s EXCEPT !.store = sa.store,
                                       !.index.size = @ + entWidth,
                                       !.nextOffset = cur + 1]
                       f1 == [f EXCEPT !.ents = indexWrite(f.ents, s.index.size,
                                                           cur - s.baseOffset, sa.pos)]
                       segs1  == [segs EXCEPT ![appendSegment] = s1]
                       files1 == [files EXCEPT ![appendSegment] = f1]
                   IN  /\ appended' = Put(appended, cur, value)
                       /\ IF ~IsMaxed(s1)
                          THEN /\ ~fault
                               /\ segs' = segs1
                               /\ files' = files1
                               /\ last' = Result("Append", 0, "", cur, NoRecord)
                               /\ expect' = expect + 1
                               /\ UNCHANGED <<segments, activeSegment, nfailed, ioFaulted>>
                          ELSE IF fault
                          THEN \* return offset, err
                               /\ nfailed < MaxFailedAppends
                               /\ segs' = segs1
                               /\ files' = files1
                               /\ last' = Result("Append", 0, "io", cur, NoRecord)
                               /\ nfailed' = nfailed + 1
                               /\ ioFaulted' = TRUE
                               /\ UNCHANGED <<segments, activeSegment, expect>>
                          ELSE LET n == newSegment(files1, cur + 1)
                               IN  /\ segs' = Put(segs1, cur + 1, n.seg)
                                   /\ files' = Put(files1, cur + 1, n.file)
                                   /\ segments' = Append(segments, cur + 1)
                                   /\ activeSegment' = cur + 1
                                   /\ last' = Result("Append", 0, "", cur, NoRecord)
                                   /\ expect' = expect + 1
                                   /\ UNCHANGED <<nfailed, ioFaulted>>
    /\ snap' = SnapAfterAppend
    /\ UNCHANGED <<Config, dirExists, phase>>

(* Log.Append when activeSegment points to a segment that Truncate has closed
   and removed: the store buffers the bytes; index.Write returns io.EOF when the
   index is full and otherwise writes through the unmapped region, which ends
   the process. *)
LogAppendClosed(value) ==
    /\ phase = "open"
    /\ ~segs[activeSegment].open
    /\ nfailed < MaxFailedAppends
    /\ LET s  == segs[activeSegment]
           sa == storeAppend(s.store, Marshal(value, s.nextOffset))
       IN  /\ segs' = [segs EXCEPT ![activeSegment].store = sa.store]
           /\ IF indexWriteFails(s.index.size)
              THEN /\ last' = Result("Append", 0, "EOF", 0, NoRecord)
                   /\ phase' = phase
              ELSE /\ last' = Result("Append", 0, "fault", 0, NoRecord)
                   /\ phase' = "fault"
    /\ nfailed' = nfailed + 1
    /\ snap' = SnapAfterAppend
    /\ UNCHANGED <<Config, dirExists, files, segments, activeSegment, expect, appended,
                   ioFaulted>>

(* Log.Read(offset): store.Read flushes the write buffer of the segment read *)
Read(offset) ==
    /\ phase = "open"
    /\ LET r == LogRead(offset)
           b == readSeg(offset)
       IN  /\ last' = Result("Read", offset, r.err, 0, r.rec)
           /\ IF b # nil /\ r.err # "EOF"
              THEN /\ files' = [files EXCEPT ![b].store = Flushed(@, segs[b].store)]
                   /\ segs' = [segs EXCEPT ![b].store.buf = <<>>]
              ELSE UNCHANGED <<files, segs>>
    /\ snap' = SnapAfterQuery
    /\ UNCHANGED <<Config, dirExists, segments, activeSegment, phase, expect, appended,
                   nfailed, ioFaulted>>

(* Log.Truncate(lowest): segment.Remove closes and unlinks every segment with
   nextOffset <= lowest + 1; the others stay, in order *)
Removable(b, lowest) == segs[b].nextOffset <= lowest + 1

Truncate(lowest) ==
    /\ phase = "open"
    /\ LET Keep(b) == ~Removable(b, lowest)
           kept    == SelectSeq(segments, Keep)
           removed == {segments[i] : i \in 1 .. Len(segments)}
                      \ {kept[i] : i \in 1 .. Len(kept)}
       IN  /\ segments' = kept
           /\ segs' = [b \in DOMAIN segs |->
                          IF b \in removed THEN closedSeg(segs[b]) ELSE segs[b]]
           /\ files' = Drop(files, removed)
    /\ last' = Result("Truncate", lowest, "",
                      IF segments = <<>> THEN nil ELSE HighestOffset, NoRecord)
    /\ snap' = NoSnap
    /\ UNCHANGED <<Config, dirExists, activeSegment, phase, expect, appended, nfailed,
                   ioFaulted>>

(* Log.LowestOffset / Log.HighestOffset: indexing an empty list panics *)
CallLowestOffset ==
    /\ phase = "open"
    /\ IF segments = <<>>
       THEN /\ last' = Result("LowestOffset", 0, "panic", 0, NoRecord)
            /\ phase' = "fault"
       ELSE /\ last' = Result("LowestOffset", 0, "", LowestOffset, NoRecord)
            /\ phase' = phase
    /\ snap' = SnapAfterQuery
    /\ UNCHANGED <<Config, dirExists, files, segs, segments, activeSegment, expect,
                   appended, nfailed, ioFaulted>>

CallHighestOffset ==
    /\ phase = "open"
    /\ IF segments = <<>>
       THEN /\ last' = Result("HighestOffset", 0, "panic", 0, NoRecord)
            /\ phase' = "fault"
       ELSE /\ last' = Result("HighestOffset", 0, "", HighestOffset, NoRecord)
            /\ phase' = phase
    /\ snap' = SnapAfterQuery
    /\ UNCHANGED <<Config, dirExists, files, segs, segments, activeSegment, expect,
                   appended, nfailed, ioFaulted>>

(* Log.Close: every segment of the list is closed *)
InList == {segments[i] : i \in 1 .. Len(segments)}

closeAllSegs == [b \in DOMAIN segs |-> IF b \in InList THEN closedSeg(segs[b]) ELSE segs[b]]

closeAllFiles ==
    [b \in DOMAIN files |-> IF b \in InList THEN closedFile(segs[b], files[b]) ELSE files[b]]

Close ==
    /\ phase = "open"
    /\ snap' = Snapshot
    /\ segs' = closeAllSegs
    /\ files' = closeAllFiles
    /\ phase' = "closed"
    /\ last' = Result("Close", 0, "", 0, NoRecord)
    /\ UNCHANGED <<Config, dirExists, segments, activeSegment, expect, appended, nfailed,
                   ioFaulted>>

(* Log.Reset: Log.Remove (Close, then os.RemoveAll(l.Dir)), then setup on the
   Log object as it is *)
Reset ==
    /\ phase = "open"
    /\ LET r == setup(FALSE, [files |-> [x \in {} |-> 0], segs |-> closeAllSegs,
                              segments |-> segments, activeSegment |-> activeSegment])
       IN  /\ segs' = r.st.segs
           /\ files' = r.st.files
           /\ segments' = r.st.segments
           /\ activeSegment' = r.st.activeSegment
           /\ last' = Result("Reset", 0, r.err, 0, NoRecord)
           /\ phase' = IF r.err = "" THEN "open" ELSE "closed"
    /\ dirExists' = FALSE
    /\ snap' = NoSnap
    /\ UNCHANGED <<Config, expect, appended, nfailed, ioFaulted>>

(* NewLog(dir, c) on the directory of a closed log, with the same config *)
NewLog ==
    /\ phase = "closed"
    /\ LET e == [x \in {} |-> 0]
           r == setup(dirExists, [files |-> files, segs |-> e, segments |-> <<>>,
                                  activeSegment |-> nil])
       IN  IF r.err # ""
           THEN /\ last' = Result("NewLog", 0, r.err, 0, NoRecord)
                /\ UNCHANGED <<files, segs, segments, activeSegment, phase, expect>>
           ELSE /\ files' = r.st.files
                /\ segs' = r.st.segs
                /\ segments' = r.st.segments
                /\ activeSegment' = r.st.activeSegment
                /\ phase' = "open"
                /\ expect' = r.st.segs[r.st.activeSegment].nextOffset
                /\ last' = Result("NewLog", 0, "", 0, NoRecord)
    /\ snap' = SnapAfterNewLog
    /\ UNCHANGED <<Config, dirExists, appended, nfailed, ioFaulted>>

Next ==
    \/ \E v \in Values, fault \in BOOLEAN : LogAppend(v, fault)
    \/ \E v \in Values : LogAppendClosed(v)
    \/ \E o \in Offsets : Read(o)
    \/ \E o \in Offsets : Truncate(o)
    \/ CallLowestOffset
    \/ CallHighestOffset
    \/ Close
    \/ Reset
    \/ NewLog

Spec == Init /\ [][Next]_vars

----------------------------------------------------------------------------
(* The process ends without Log.Close (a kill, or a panic): the bytes in the
   stores' write buffers are lost with the process, the index files keep the
   length MaxIndexBytes that newSegment gave them, and the entries written
   through the shared map stay in the files.  NewLog then opens the directory. *)
Crashed == [NoSnap EXCEPT !.at = "crashed"]

Crash ==
    /\ phase = "open"
    /\ phase' = "closed"
    /\ segs' = [b \in DOMAIN segs |-> closedSeg(segs[b])]
    /\ last' = Result("Crash", 0, "", 0, NoRecord)
    /\ snap' = Crashed
    /\ UNCHANGED <<Config, dirExists, files, segments, activeSegment, expect, appended,
                   nfailed, ioFaulted>>

NextCrash ==
    \/ Next
    \/ Crash

SpecCrash == Init /\ [][NextCrash]_vars

----------------------------------------------------------------------------
(* Log.Reader, consumed to the end before any other call: io.MultiReader reads
   one originReader after the other, each from byte 0 of its store until
   File.ReadAt reports the end of the file; store.ReadAt flushes the write
   buffer first. *)
RECURSIVE ReaderFrom(_)
ReaderFrom(i) ==
    IF i > Len(segments) THEN <<>>
    ELSE Flushed(files[segments[i]].store, segs[segments[i]].store) \o ReaderFrom(i + 1)

ReaderBytes == ReaderFrom(1)

CallReader ==
    /\ phase = "open"
    /\ last' = Result("Reader", 0, "", Len(ReaderBytes), NoRecord)
    /\ files' = [b \in DOMAIN files |->
                    IF b \in InList THEN [files[b] EXCEPT !.store = Flushed(@, segs[b].store)]
                    ELSE files[b]]
    /\ segs' = [b \in DOMAIN segs |->
                   IF b \in InList THEN [segs[b] EXCEPT !.store.buf = <<>>] ELSE segs[b]]
    /\ snap' = SnapAfterQuery
    /\ UNCHANGED <<Config, dirExists, segments, activeSegment, phase, expect, appended,
                   nfailed, ioFaulted>>

NextReader ==
    \/ Next
    \/ CallReader

SpecReader == Init /\ [][NextReader]_vars

----------------------------------------------------------------------------
(* A segment on its own, driven as TestSegment drives it: newSegment(dir,
   base, c) with MaxStoreBytes = 1024 and an index of exactly n entries, then
   Append, Read, Close or Remove followed by newSegment on the same directory.
   activeSegment is the test's seg; the Log's list is not used. *)

SegBases == { 0, 15 }                             \* baseOffset
SegEntries == 1 .. MaxRecords                     \* MaxIndexBytes / entWidth
SegReadArgs == UNION { b .. (b + MaxRecords) : b \in SegBases }

(* segment.Append with nextOffset advanced before the index is written *)
segmentAppendEager(s, f, value) ==
    LET cur == s.nextOffset
        sa  == storeAppend(s.store, Marshal(value, cur))
    IN  IF indexWriteFails(s.index.size)
        THEN [err |-> "EOF", offset |-> 0, file |-> f,
              seg |-> [s EXCEPT !.store = sa.store, !.nextOffset = cur + 1]]
        ELSE [err |-> "", offset |-> cur,
              seg  |-> [s EXCEPT !.store = sa.store, !.index.size = @ + entWidth,
                                 !.nextOffset = cur + 1],
              file |-> [f EXCEPT !.ents = indexWrite(f.ents, s.index.size,
                                                     cur - s.baseOffset, sa.pos)]]

(* segment.Append(record) with record.Value = value *)
segmentAppend(s, f, value) ==
    LET cur == s.nextOffset
        sa  == storeAppend(s.store, Marshal(value, cur))
    IN  IF indexWriteFails(s.index.size)
        THEN [err |-> "EOF", offset |-> 0, file |-> f,
              seg |-> [s EXCEPT !.store = sa.store]]
        ELSE [err |-> "", offset |-> cur,
              seg  |-> [s EXCEPT !.store = sa.store, !.index.size = @ + entWidth,
                                 !.nextOffset = cur + 1],
              file |-> [f EXCEPT !.ents = indexWrite(f.ents, s.index.size,
                                                     cur - s.baseOffset, sa.pos)]]

SegInit ==
    \E n \in SegEntries, base \in SegBases :
        /\ Config = [MaxStoreBytes |-> DefaultMaxBytes, MaxIndexBytes |-> entWidth * n,
                     InitialOffset |-> base]
        /\ dirExists = TRUE
        /\ LET ns == newSegment([x \in {} |-> 0], base)
           IN  /\ segs = Put([x \in {} |-> 0], base, ns.seg)
               /\ files = Put([x \in {} |-> 0], base, ns.file)
        /\ segments = <<>>
        /\ activeSegment = base
        /\ phase = "open"
        /\ last = Result("newSegment", base, "", 0, NoRecord)
        /\ expect = base
        /\ appended = [x \in {} |-> <<>>]
        /\ nfailed = 0
        /\ ioFaulted = FALSE
        /\ snap = NoSnap

SegAppend(value) ==
    /\ LET r == segmentAppend(segs[activeSegment], files[activeSegment], value)
       IN  /\ r.err # "" => nfailed < MaxFailedAppends
           /\ segs' = [segs EXCEPT ![activeSegment] = r.seg]
           /\ files' = [files EXCEPT ![activeSegment] = r.file]
           /\ last' = Result("Append", 0, r.err, r.offset, NoRecord)
           /\ expect' = IF r.err = "" THEN expect + 1 ELSE expect
           /\ appended' = IF r.err = "" THEN Put(appended, r.offset, value) ELSE appended
           /\ nfailed' = IF r.err = "" THEN nfailed ELSE nfailed + 1
    /\ UNCHANGED <<Config, dirExists, segments, activeSegment, phase, ioFaulted, snap>>

SegOffsets == activeSegment .. (activeSegment + MaxRecords)

SegRead(offset) ==
    /\ offset \in SegOffsets
    /\ LET r == segmentRead(segs[activeSegment], files[activeSegment], offset)
       IN  /\ last' = Result("Read", offset, r.err, 0, r.rec)
           /\ IF r.err # "EOF"
              THEN /\ files' = [files EXCEPT ![activeSegment].store =
                                                 Flushed(@, segs[activeSegment].store)]
                   /\ segs' = [segs EXCEPT ![activeSegment].store.buf = <<>>]
              ELSE UNCHANGED <<files, segs>>
    /\ UNCHANGED <<Config, dirExists, segments, activeSegment, phase, expect, appended,
                   nfailed, ioFaulted, snap>>

(* seg.Close(), then newSegment on the same directory and base offset *)
SegCloseNew ==
    /\ LET f1 == closedFile(segs[activeSegment], files[activeSegment])
           ns == newSegment(Put(files, activeSegment, f1), activeSegment)
       IN  /\ segs' = Put(segs, activeSegment, ns.seg)
           /\ files' = Put(files, activeSegment, ns.file)
    /\ last' = Result("Close", 0, "", 0, NoRecord)
    /\ UNCHANGED <<Config, dirExists, segments, activeSegment, phase, expect, appended,
                   nfailed, ioFaulted, snap>>

(* seg.Remove(), then newSegment on the same directory and base offset *)
SegRemoveNew ==
    /\ LET ns == newSegment(Drop(files, {activeSegment}), activeSegment)
       IN  /\ segs' = Put(segs, activeSegment, ns.seg)
           /\ files' = Put(files, activeSegment, ns.file)
    /\ last' = Result("Remove", 0, "", 0, NoRecord)
    /\ expect' = activeSegment
    /\ appended' = [x \in {} |-> <<>>]
    /\ UNCHANGED <<Config, dirExists, segments, activeSegment, phase, nfailed, ioFaulted,
                   snap>>

SegNext ==
    \/ \E v \in Values : SegAppend(v)
    \/ \E o \in SegReadArgs : SegRead(o)
    \/ SegCloseNew
    \/ SegRemoveNew

SpecSeg == SegInit /\ [][SegNext]_vars

----------------------------------------------------------------------------
(* An index on its own, driven as TestIndex drives it: newIndex on an empty
   file, Write(off, pos) with off the number of the entry, Read(in), and Close
   followed by newIndex on the same file.  The index is the one of the segment
   object at key 0; `appended` holds, per entry number, the position written. *)

Positions == { 0, 10, 21 }                        \* arguments pos of index.Write
IndexLimits == { DefaultMaxBytes, 2 * entWidth }  \* MaxIndexBytes
IndexReadArgs == -1 .. MaxRecords                 \* arguments of index.Read

IdxInit ==
    \E m \in IndexLimits :
        /\ Config = [MaxStoreBytes |-> DefaultMaxBytes, MaxIndexBytes |-> m,
                     InitialOffset |-> 0]
        /\ dirExists = TRUE
        /\ LET ns == newSegment([x \in {} |-> 0], 0)
           IN  /\ segs = Put([x \in {} |-> 0], 0, ns.seg)
               /\ files = Put([x \in {} |-> 0], 0, ns.file)
        /\ segments = <<>>
        /\ activeSegment = 0
        /\ phase = "open"
        /\ last = Result("newIndex", 0, "", 0, NoRecord)
        /\ expect = 0
        /\ appended = [x \in {} |-> 0]
        /\ nfailed = 0
        /\ ioFaulted = FALSE
        /\ snap = NoSnap

IdxWrite(pos) ==
    /\ expect < MaxRecords
    /\ IF indexWriteFails(segs[0].index.size)
       THEN /\ last' = Result("Write", expect, "EOF", 0, NoRecord)
            /\ UNCHANGED <<segs, files, expect, appended>>
       ELSE /\ files' = [files EXCEPT ![0].ents =
                                          indexWrite(@, segs[0].index.size, expect, pos)]
            /\ segs' = [segs EXCEPT ![0].index.size = @ + entWidth]
            /\ expect' = expect + 1
            /\ appended' = Put(appended, expect, pos)
            /\ last' = Result("Write", expect, "", 0, NoRecord)
    /\ UNCHANGED <<Config, dirExists, segments, activeSegment, phase, nfailed, ioFaulted,
                   snap>>

IdxRead(in) ==
    /\ LET e == indexRead(files[0].ents, segs[0].index.size, in)
       IN  last' = Result("Read", in, e.err, e.pos, [value |-> <<>>, offset |-> e.off])
    /\ UNCHANGED <<Config, dirExists, files, segs, segments, activeSegment, phase, expect,
                   appended, nfailed, ioFaulted, snap>>

(* index.Close truncates the file to the index's size; newIndex takes the
   file's length as the size and extends the file to MaxIndexBytes *)
IdxCloseNew ==
    /\ LET f1 == [files[0] EXCEPT !.idxLen = segs[0].index.size]
       IN  /\ segs' = [segs EXCEPT ![0].index.size = f1.idxLen]
           /\ files' = [files EXCEPT ![0] = [f1 EXCEPT !.idxLen = Config.MaxIndexBytes]]
    /\ last' = Result("Close", 0, "", 0, NoRecord)
    /\ UNCHANGED <<Config, dirExists, segments, activeSegment, phase, expect, appended,
                   nfailed, ioFaulted, snap>>

IdxNext ==
    \/ \E pos \in Positions : IdxWrite(pos)
    \/ \E in \in IndexReadArgs : IdxRead(in)
    \/ IdxCloseNew

SpecIdx == IdxInit /\ [][IdxNext]_vars

----------------------------------------------------------------------------
(* A store on its own: newStore on an empty file, Append(p), Read(pos),
   ReadAt(p, off), and Close followed by newStore on the same file.  The store
   is the one of the segment object at key 0; `expect` counts the Appends. *)

Payloads == { <<>>, <<97>>, <<97, 98, 99>> }      \* arguments p of store.Append
StorePositions == { 0, 8, 9, 11, 17, 19 }         \* arguments pos of Read, off of ReadAt
ReadAtLens == { 1, 8 }                            \* len(p) of ReadAt

StoreResult(op, arg, err, n, pos, b) ==
    [op |-> op, arg |-> arg, err |-> err, n |-> n, pos |-> pos, b |-> b]

(* File.ReadAt(p, off) with len(p) = n on a file holding `bytes` *)
fileReadAt(bytes, n, off) ==
    IF off + n <= Len(bytes) THEN [err |-> "", b |-> SubSeq(bytes, off + 1, off + n)]
    ELSE [err |-> "EOF", b |-> SubSeq(bytes, off + 1, Len(bytes))]

StoreInit ==
    /\ Config = [MaxStoreBytes |-> DefaultMaxBytes, MaxIndexBytes |-> DefaultMaxBytes,
                 InitialOffset |-> 0]
    /\ dirExists = TRUE
    /\ LET ns == newSegment([x \in {} |-> 0], 0)
       IN  /\ segs = Put([x \in {} |-> 0], 0, ns.seg)
           /\ files = Put([x \in {} |-> 0], 0, ns.file)
    /\ segments = <<>>
    /\ activeSegment = 0
    /\ phase = "open"
    /\ last = StoreResult("newStore", 0, "", 0, 0, <<>>)
    /\ expect = 0
    /\ appended = [x \in {} |-> 0]
    /\ nfailed = 0
    /\ ioFaulted = FALSE
    /\ snap = NoSnap

StoreAppend(p) ==
    /\ expect < MaxRecords
    /\ LET sa == storeAppend(segs[0].store, p)
       IN  /\ segs' = [segs EXCEPT ![0].store = sa.store]
           /\ last' = StoreResult("Append", Len(p), "", sa.n, sa.pos, <<>>)
    /\ expect' = expect + 1
    /\ UNCHANGED <<Config, dirExists, files, segments, activeSegment, phase, appended,
                   nfailed, ioFaulted, snap>>

StoreFlush ==
    /\ files' = [files EXCEPT ![0].store = Flushed(@, segs[0].store)]
    /\ segs' = [segs EXCEPT ![0].store.buf = <<>>]

(* the positions store.Append has returned, and the end of the store: Read is
   called with a position taken from the index *)
RECURSIVE FrameStarts(_, _)
FrameStarts(bytes, pos) ==
    IF pos >= Len(bytes) THEN {pos}
    ELSE {pos} \cup FrameStarts(bytes, pos + lenWidth
                                       + Uint(SubSeq(bytes, pos + 1, pos + lenWidth)))

StoreRead(pos) ==
    /\ pos \in FrameStarts(Flushed(files[0].store, segs[0].store), 0)
    /\ StoreFlush
    /\ LET r == storeRead(Flushed(files[0].store, segs[0].store), pos)
       IN  last' = StoreResult("Read", pos, r.err, Len(r.b), pos, r.b)
    /\ UNCHANGED <<Config, dirExists, segments, activeSegment, phase, expect, appended,
                   nfailed, ioFaulted, snap>>

StoreReadAt(n, off) ==
    /\ StoreFlush
    /\ LET r == fileReadAt(Flushed(files[0].store, segs[0].store), n, off)
       IN  last' = StoreResult("ReadAt", off, r.err, Len(r.b), off, r.b)
    /\ UNCHANGED <<Config, dirExists, segments, activeSegment, phase, expect, appended,
                   nfailed, ioFaulted, snap>>

(* store.Close flushes; newStore takes the size from the file *)
StoreCloseNew ==
    /\ LET bytes == Flushed(files[0].store, segs[0].store)
       IN  /\ files' = [files EXCEPT ![0].store = bytes]
           /\ segs' = [segs EXCEPT ![0].store = [size |-> Len(bytes), buf |-> <<>>]]
    /\ last' = StoreResult("Close", 0, "", 0, 0, <<>>)
    /\ UNCHANGED <<Config, dirExists, segments, activeSegment, phase, expect, appended,
                   nfailed, ioFaulted, snap>>

StoreNext ==
    \/ \E p \in Payloads : StoreAppend(p)
    \/ \E pos \in StorePositions : StoreRead(pos)
    \/ \E n \in ReadAtLens, off \in StorePositions : StoreReadAt(n, off)
    \/ StoreCloseNew

SpecStore == StoreInit /\ [][StoreNext]_vars

----------------------------------------------------------------------------
(* The Log called from several goroutines.  Each call is split where another
   goroutine can run: Append and Truncate hold l.mu.Lock() and Read,
   LowestOffset, HighestOffset and Reader hold l.mu.RLock() from their first
   step to their last; Close, Remove and Reset take no lock.  A call's first
   step takes the lock (when it takes one) and enters the index access it
   makes, its last step applies what the call does and returns.  Here last[t]
   is the call goroutine t is in: its name, where it is, the segments whose
   index it is accessing, its argument, and for Close the segments of its
   `range l.segments` still to be closed.  The lock's state is read off the
   calls in progress. *)

Threads == { 1, 2 }
ThreadLimit == 2 * entWidth                       \* MaxIndexBytes: two records per segment
ThreadValue == <<97>>

Idle == [op |-> "", pc |-> "idle", segs |-> {}, arg |-> 0, list |-> <<>>]

Call(op, pc, accessed, arg, list) ==
    [op |-> op, pc |-> pc, segs |-> accessed, arg |-> arg, list |-> list]

WriteLocked == { "Append", "Truncate" }
ReadLocked == { "Read", "LowestOffset", "HighestOffset", "Reader" }
Unlocked == { "Close", "Remove", "Reset" }

(* l.mu.Lock() and l.mu.RLock() can be taken by t *)
CanLock(t) == \A u \in Threads \ {t} : last[u].op \notin (WriteLocked \cup ReadLocked)

CanRLock(t) == \A u \in Threads \ {t} : last[u].op \notin WriteLocked

ThreadInit ==
    /\ Config = [MaxStoreBytes |-> DefaultMaxBytes, MaxIndexBytes |-> ThreadLimit,
                 InitialOffset |-> 0]
    /\ dirExists = TRUE
    /\ LET e == [x \in {} |-> 0]
           r == setup(TRUE, [files |-> e, segs |-> e, segments |-> <<>>,
                             activeSegment |-> nil])
       IN  /\ files = r.st.files
           /\ segs = r.st.segs
           /\ segments = r.st.segments
           /\ activeSegment = r.st.activeSegment
    /\ phase = "open"
    /\ last = [t \in Threads |-> Idle]
    /\ expect = 0
    /\ appended = [x \in {} |-> <<>>]
    /\ nfailed = 0
    /\ ioFaulted = FALSE
    /\ snap = NoSnap

(* Log.Append: Lock, then segment.Append on l.activeSegment *)
ThAppendBegin(t) ==
    /\ phase = "open"
    /\ last[t] = Idle
    /\ CanLock(t)
    /\ segs[activeSegment].nextOffset < MaxRecords
    /\ last' = [last EXCEPT ![t] = Call("Append", "index.Write", {activeSegment}, 0, <<>>)]
    /\ UNCHANGED <<Config, dirExists, files, segs, segments, activeSegment, phase, expect,
                   appended, nfailed, ioFaulted, snap>>

(* the rest of Log.Append; index.Write on an index that was closed under it
   goes through the unmapped region and ends the process *)
ThAppendEnd(t) ==
    /\ last[t].op = "Append"
    /\ last' = [last EXCEPT ![t] = Idle]
    /\ LET a == activeSegment
           r == segmentAppend(segs[a], FilesOf(files, a), ThreadValue)
       IN  IF ~segs[a].open
           THEN /\ phase' = "fault"
                /\ UNCHANGED <<files, segs, segments, activeSegment, expect, appended>>
           ELSE IF r.err # ""
           THEN /\ segs' = [segs EXCEPT ![a] = r.seg]
                /\ UNCHANGED <<files, segments, activeSegment, phase, expect, appended>>
           ELSE LET segs1  == [segs EXCEPT ![a] = r.seg]
                    files1 == IF a \in DOMAIN files THEN [files EXCEPT ![a] = r.file]
                              ELSE files
                    n      == newSegment(files1, r.offset + 1)
                IN  /\ appended' = Put(appended, r.offset, ThreadValue)
                    /\ expect' = expect + 1
                    /\ phase' = phase
                    /\ IF IsMaxed(r.seg)
                       THEN /\ segs' = Put(segs1, r.offset + 1, n.seg)
                            /\ files' = Put(files1, r.offset + 1, n.file)
                            /\ segments' = Append(segments, r.offset + 1)
                            /\ activeSegment' = r.offset + 1
                       ELSE /\ segs' = segs1
                            /\ files' = files1
                            /\ UNCHANGED <<segments, activeSegment>>
    /\ UNCHANGED <<Config, dirExists, nfailed, ioFaulted, snap>>

(* Log.Read(offset): RLock, the scan of l.segments, then segment.Read on the
   segment found; without one the call returns at once *)
ThReadBegin(t, offset) ==
    /\ phase = "open"
    /\ last[t] = Idle
    /\ CanRLock(t)
    /\ readSeg(offset) # nil
    /\ last' = [last EXCEPT ![t] = Call("Read", "index.Read", {readSeg(offset)}, offset, <<>>)]
    /\ UNCHANGED <<Config, dirExists, files, segs, segments, activeSegment, phase, expect,
                   appended, nfailed, ioFaulted, snap>>

ThReadEnd(t) ==
    /\ last[t].op = "Read"
    /\ last' = [last EXCEPT ![t] = Idle]
    /\ LET b == CHOOSE x \in last[t].segs : TRUE
           r == segmentRead(segs[b], FilesOf(files, b), last[t].arg)
       IN  IF segs[b].open /\ r.err # "EOF" /\ b \in DOMAIN files
           THEN /\ files' = [files EXCEPT ![b].store = Flushed(@, segs[b].store)]
                /\ segs' = [segs EXCEPT ![b].store.buf = <<>>]
           ELSE UNCHANGED <<files, segs>>
    /\ UNCHANGED <<Config, dirExists, segments, activeSegment, phase, expect, appended,
                   nfailed, ioFaulted, snap>>

(* Log.Truncate(lowest): Lock, then segment.Remove (Close, unlink) on every
   segment it drops *)
ThTruncateBegin(t, lowest) ==
    /\ phase = "open"
    /\ last[t] = Idle
    /\ CanLock(t)
    /\ LET R == {b \in InList : Removable(b, lowest)}
       IN  /\ R # {}
           /\ last' = [last EXCEPT ![t] = Call("Truncate", "index.Close", R, lowest, <<>>)]
    /\ UNCHANGED <<Config, dirExists, files, segs, segments, activeSegment, phase, expect,
                   appended, nfailed, ioFaulted, snap>>

ThTruncateEnd(t) ==
    /\ last[t].op = "Truncate"
    /\ last' = [last EXCEPT ![t] = Idle]
    /\ LET Keep(b) == ~Removable(b, last[t].arg)
           kept    == SelectSeq(segments, Keep)
           removed == InList \ {kept[i] : i \in 1 .. Len(kept)}
       IN  /\ segments' = kept
           /\ segs' = [b \in DOMAIN segs |->
                          IF b \in removed THEN closedSeg(segs[b]) ELSE segs[b]]
           /\ files' = Drop(files, removed)
    /\ UNCHANGED <<Config, dirExists, activeSegment, phase, expect, appended, nfailed,
                   ioFaulted, snap>>

(* LowestOffset, HighestOffset, Reader: RLock, fields of the segments, RUnlock;
   indexing an empty list panics *)
ThQueryBegin(t, op) ==
    /\ phase = "open"
    /\ last[t] = Idle
    /\ CanRLock(t)
    /\ last' = [last EXCEPT ![t] = Call(op, "locked", {}, 0, <<>>)]
    /\ UNCHANGED <<Config, dirExists, files, segs, segments, activeSegment, phase, expect,
                   appended, nfailed, ioFaulted, snap>>

ThQueryEnd(t) ==
    /\ last[t].op \in ReadLocked \ {"Read"}
    /\ last' = [last EXCEPT ![t] = Idle]
    /\ phase' = IF segments = <<>> /\ last[t].op # "Reader" THEN "fault" ELSE phase
    /\ UNCHANGED <<Config, dirExists, files, segs, segments, activeSegment, expect,
                   appended, nfailed, ioFaulted, snap>>

(* Log.Close, Log.Remove, Log.Reset: no lock; `range l.segments` reads the
   list once, then segment.Close on one segment after the other *)
ThCloseBegin(t, op) ==
    /\ phase = "open"
    /\ last[t] = Idle
    /\ segments # <<>>
    /\ last' = [last EXCEPT ![t] = Call(op, "index.Close", {segments[1]}, 0, segments)]
    /\ UNCHANGED <<Config, dirExists, files, segs, segments, activeSegment, phase, expect,
                   appended, nfailed, ioFaulted, snap>>

(* segment.Close of the segment at hand has returned: with an error when the
   segment was closed already (the call returns it), else the loop goes on;
   after the last segment Close returns, Remove and Reset call os.RemoveAll,
   and Reset's setup fails on the directory that is gone *)
ThCloseStep(t) ==
    /\ last[t].op \in Unlocked
    /\ LET b    == last[t].list[1]
           rest == Tail(last[t].list)
       IN  IF ~segs[b].open
           THEN /\ last' = [last EXCEPT ![t] = Idle]
                /\ UNCHANGED <<files, segs, phase, dirExists>>
           ELSE /\ segs' = [segs EXCEPT ![b] = closedSeg(@)]
                /\ IF rest # <<>>
                   THEN /\ last' = [last EXCEPT ![t].list = rest, ![t].segs = {rest[1]}]
                        /\ files' = IF b \in DOMAIN files
                                     THEN [files EXCEPT ![b] = closedFile(segs[b], @)]
                                     ELSE files
                        /\ UNCHANGED <<phase, dirExists>>
                   ELSE /\ last' = [last EXCEPT ![t] = Idle]
                        /\ phase' = "closed"
                        /\ IF last[t].op = "Close"
                           THEN /\ files' = IF b \in DOMAIN files
                                             THEN [files EXCEPT ![b] = closedFile(segs[b], @)]
                                             ELSE files
                                /\ dirExists' = dirExists
                           ELSE /\ files' = [x \in {} |-> 0]
                                /\ dirExists' = FALSE
    /\ UNCHANGED <<Config, segments, activeSegment, expect, appended, nfailed, ioFaulted,
                   snap>>

ThreadNext ==
    \/ \E t \in Threads : ThAppendBegin(t)
    \/ \E t \in Threads : ThAppendEnd(t)
    \/ \E t \in Threads, o \in Offsets : ThReadBegin(t, o)
    \/ \E t \in Threads : ThReadEnd(t)
    \/ \E t \in Threads, o \in Offsets : ThTruncateBegin(t, o)
    \/ \E t \in Threads : ThTruncateEnd(t)
    \/ \E t \in Threads, op \in ReadLocked \ {"Read"} : ThQueryBegin(t, op)
    \/ \E t \in Threads : ThQueryEnd(t)
    \/ \E t \in Threads, op \in Unlocked : ThCloseBegin(t, op)
    \/ \E t \in Threads : ThCloseStep(t)

SpecThreads == ThreadInit /\ [][ThreadNext]_vars

----------------------------------------------------------------------------
(* The in-memory Log of package server and its HTTP handlers.  Log.Append and
   Log.Read hold l.mu for their whole body, so each is one step and the order
   of the steps is the order in which the calls take the mutex; what a handler
   does before and after the call touches its own request only.  Here
   `appended` is l.records, record i of the slice at position i + 1. *)

StatusOK == 200
StatusBadRequest == 400
StatusNotFound == 404
StatusInternalServerError == 500

ErrOffsetNotFound == "offset not found"

RequestOffsets == 0 .. MaxRecords                 \* Offset fields of requests

(* Log.Append storing the record as the caller passed it *)
serverAppendAsPassed(records, record) ==
    [records |-> Append(records, record), offset |-> Len(records), err |-> ""]

(* Log.Append(record) *)
serverAppend(records, record) ==
    [records |-> Append(records, [record EXCEPT !.offset = Len(records)]),
     offset  |-> Len(records),
     err     |-> ""]

(* Log.Read(offset) *)
serverRead(records, offset) ==
    IF offset >= Len(records) THEN [err |-> ErrOffsetNotFound, rec |-> NoRecord]
    ELSE [err |-> "", rec |-> records[offset + 1]]

(* the status handleConsume answers with *)
consumeStatus(decoded, err) ==
    IF ~decoded THEN StatusBadRequest
    ELSE IF err = ErrOffsetNotFound THEN StatusNotFound
    ELSE IF err # "" THEN StatusInternalServerError
    ELSE StatusOK

ServerInit ==
    /\ Config = [MaxStoreBytes |-> DefaultMaxBytes, MaxIndexBytes |-> DefaultMaxBytes,
                 InitialOffset |-> 0]
    /\ dirExists = TRUE
    /\ files = [x \in {} |-> 0]
    /\ segs = [x \in {} |-> 0]
    /\ segments = <<>>
    /\ activeSegment = nil
    /\ phase = "open"
    /\ last = Result("NewLog", 0, "", 0, NoRecord)
    /\ expect = 0
    /\ appended = <<>>
    /\ nfailed = 0
    /\ ioFaulted = FALSE
    /\ snap = NoSnap

ServerAppend(value, offset) ==
    /\ Len(appended) < MaxRecords
    /\ LET r == serverAppend(appended, [value |-> value, offset |-> offset])
       IN  /\ appended' = r.records
           /\ last' = Result("Append", offset, r.err, r.offset, [value |-> value, offset |-> offset])
    /\ expect' = expect + 1
    /\ UNCHANGED <<Config, dirExists, files, segs, segments, activeSegment, phase, nfailed,
                   ioFaulted, snap>>

ServerRead(offset) ==
    /\ LET r == serverRead(appended, offset)
       IN  last' = Result("Read", offset, r.err, 0, r.rec)
    /\ UNCHANGED <<Config, dirExists, files, segs, segments, activeSegment, phase, expect,
                   appended, nfailed, ioFaulted, snap>>

(* POST /: a body that does not decode is answered 400, else the record is
   appended and the offset returned *)
handleProduce(decoded, value, offset) ==
    /\ Len(appended) < MaxRecords
    /\ IF ~decoded
       THEN /\ last' = Result("handleProduce", offset, "decode", StatusBadRequest, NoRecord)
            /\ UNCHANGED <<appended, expect>>
       ELSE LET r == serverAppend(appended, [value |-> value, offset |-> offset])
            IN  /\ appended' = r.records
                /\ expect' = expect + 1
                /\ last' = Result("handleProduce", offset, r.err,
                                  IF r.err # "" THEN StatusInternalServerError ELSE StatusOK,
                                  [value |-> value, offset |-> r.offset])
    /\ UNCHANGED <<Config, dirExists, files, segs, segments, activeSegment, phase, nfailed,
                   ioFaulted, snap>>

(* GET /: a body that does not decode is answered 400, else Log.Read decides *)
handleConsume(decoded, offset) ==
    /\ LET r == IF decoded THEN serverRead(appended, offset)
                ELSE [err |-> "decode", rec |-> NoRecord]
       IN  last' = Result("handleConsume", offset, r.err, consumeStatus(decoded, r.err),
                          r.rec)
    /\ UNCHANGED <<Config, dirExists, files, segs, segments, activeSegment, phase, expect,
                   appended, nfailed, ioFaulted, snap>>

ServerNext ==
    \/ \E v \in Values, o \in RequestOffsets : ServerAppend(v, o)
    \/ \E o \in RequestOffsets : ServerRead(o)
    \/ \E d \in BOOLEAN, v \in Values, o \in RequestOffsets : handleProduce(d, v, o)
    \/ \E d \in BOOLEAN, o \in RequestOffsets : handleConsume(d, o)

SpecServer == ServerInit /\ [][ServerNext]_vars

----------------------------------------------------------------------------
(* Properties *)

Ascending(seq) == \A i \in 1 .. Len(seq) - 1 : seq[i] < seq[i + 1]

(* C1: the offsets returned by the successful Appends of one Log are the
   consecutive integers from the log's first free offset on, and an Append
   that returns an error consumes no offset (the active segment's nextOffset
   counts the successful Appends only). *)
C1_ConsecutiveOffsets ==
    /\ (last.op = "Append" /\ last.err = "") => last.ret = expect - 1
    /\ segs[activeSegment].nextOffset = expect

(* C2: every offset from LowestOffset() to HighestOffset() is readable, and
   Read returns the record appended there with that offset. *)
C2_ReadInRange ==
    (phase = "open" /\ segments # <<>>) =>
        \A o \in Offsets :
            (LowestOffset <= o /\ o <= HighestOffset) =>
                /\ LogRead(o).err = ""
                /\ LogRead(o).rec.offset = o
                /\ o \in DOMAIN appended
                /\ LogRead(o).rec.value = appended[o]

(* C3: Read of an offset above HighestOffset() or below LowestOffset() fails
   with offset-out-of-range and returns no record. *)
OutOfRange(o) == o > HighestOffset \/ o < LowestOffset

HeldRecords == \E o \in Offsets : snap.reads[o].err = ""

C4_ReopenSame ==
    /\ (snap.at = "reopened" /\ HeldRecords) =>
          /\ segments = snap.bases
          /\ LowestOffset = snap.lowest
          /\ HighestOffset = snap.highest
          /\ \A o \in Offsets : LogRead(o) = snap.reads[o]
    /\ (snap.at = "appended" /\ HeldRecords /\ ~ioFaulted) =>
          (last.err = "" /\ last.ret = snap.highest + 1)

(* C5: without I/O errors every Log.Append succeeds: whenever Append can start,
   the active segment's index has room for one more entry. *)
C5_AppendNeverOutOfSpace ==
    (phase = "open" /\ ~ioFaulted /\ segs[activeSegment].open) =>
        /\ segs[activeSegment].index.size + entWidth <= Config.MaxIndexBytes
        /\ last.op = "Append" => last.err = ""

(* C6: a successful Append returns the active segment's nextOffset k; when it
   leaves that segment maxed, a new open segment with baseOffset = nextOffset
   = k + 1 is appended to the list and is active (so the next Append writes
   into it and returns k + 1); when it does not, the list and the active
   segment stay as they were. *)
Maxed(s) ==
    s.store.size >= Config.MaxStoreBytes \/ s.index.size >= Config.MaxIndexBytes

C6_Step ==
    (last'.op = "Append" /\ last'.err = "" /\ expect' = expect + 1) =>
        LET k == last'.ret
        IN  /\ k = segs[activeSegment].nextOffset
            /\ segs'[activeSegment].nextOffset = k + 1
            /\ k \in DOMAIN appended'
            /\ IF Maxed(segs'[activeSegment])
               THEN /\ segments' = Append(segments, k + 1)
                    /\ activeSegment' = k + 1
                    /\ segs'[k + 1].baseOffset = k + 1
                    /\ segs'[k + 1].nextOffset = k + 1
                    /\ segs'[k + 1].open
               ELSE /\ segments' = segments
                    /\ activeSegment' = activeSegment

C6_Rollover == [][C6_Step]_vars

C6_Witness ==
    /\ last.op = "Append"
    /\ last.err = ""
    /\ Len(segments) >= 3
    /\ activeSegment = last.ret + 1
    /\ segments[Len(segments)] = activeSegment
    /\ segs[activeSegment].nextOffset = activeSegment
    /\ segs[segments[Len(segments) - 1]].nextOffset = activeSegment

(* C7: (for a log in which records were appended) after a successful
   Truncate(lowest) every remaining segment has
   nextOffset > lowest + 1, the remaining segments are still in order, the
   files of the removed segments are gone, LowestOffset() is the base offset of
   the first remaining segment and Read fails with offset-out-of-range below
   it. *)
C7_Truncate ==
    (last.op = "Truncate" /\ last.err = "" /\ DOMAIN appended # {}) =>
        /\ \A b \in InList : segs[b].nextOffset > last.arg + 1
        /\ Ascending(segments)
        /\ \A b \in DOMAIN segs : ~segs[b].open => b \notin DOMAIN files
        /\ segments # <<>>
        /\ LowestOffset = segs[Head(segments)].baseOffset
        /\ \A x \in Offsets : x < LowestOffset => LogRead(x).err = "OutOfRange"

(* C8: (for a log in which records were appended) Truncate(lowest) with
   lowest <= HighestOffset() leaves the active segment alone: it is still the last of the list, open, and its files
   exist. *)
C8_TruncateKeepsActive ==
    (last.op = "Truncate" /\ last.ret # nil /\ last.arg <= last.ret /\ DOMAIN appended # {}) =>
        /\ segments # <<>>
        /\ segments[Len(segments)] = activeSegment
        /\ segs[activeSegment].open
        /\ activeSegment \in DOMAIN files

(* C9: the segment list of an open log is never empty, its last element is the
   active segment, and the active segment is open. *)
C9_ActiveIsLast ==
    phase = "open" =>
        /\ segments # <<>>
        /\ segments[Len(segments)] = activeSegment
        /\ segs[activeSegment].open

(* C10: Reset succeeds and leaves one open, active, empty segment at
   InitialOffset. *)
C10_Reset ==
    last.op = "Reset" =>
        /\ last.err = ""
        /\ phase = "open"
        /\ Len(segments) = 1
        /\ activeSegment = segments[1]
        /\ segs[activeSegment].open
        /\ segs[activeSegment].baseOffset = Config.InitialOffset
        /\ segs[activeSegment].nextOffset = Config.InitialOffset

----------------------------------------------------------------------------
(* C11: read-your-writes.  Once Log.Append has stored a record at offset k,   *)
(* Log.Read(k) returns that record in every later state in which a segment    *)
(* of the list still covers k, also while the record's bytes are only in the  *)
(* store's write buffer.  Reads take the read lock and store.Read holds the   *)
(* store's mutex over flush and both ReadAt calls, so a Read is one step.     *)
Held(o) == o \in DOMAIN appended /\ readSeg(o) # nil /\ segs[readSeg(o)].open

C11_ReadYourWrites ==
    phase = "open" =>
        \A o \in Offsets :
            Held(o) => LogRead(o) = [err |-> "", rec |-> [value |-> appended[o], offset |-> o]]

(* Append has just returned k and the bytes of record k are still buffered *)
C11_Witness ==
    /\ phase = "open"
    /\ last.op = "Append" /\ last.err = ""
    /\ Held(last.ret)
    /\ segs[readSeg(last.ret)].store.buf # <<>>
    /\ files[readSeg(last.ret)].store = <<>>
    /\ LogRead(last.ret).rec.value = appended[last.ret]

----------------------------------------------------------------------------
(* C12: when a log is opened after a crash, every segment's nextOffset is at  *)
(* most baseOffset plus the number of entries in its index file, a segment    *)
(* whose index file holds no entry opens with nextOffset = baseOffset, and    *)
(* every offset that Read serves holds the record that was appended there.    *)
Entries(b) == Len(files[b].ents)

Recovered ==
    /\ \A b \in InList : segs[b].nextOffset <= segs[b].baseOffset + Entries(b)
    /\ \A o \in Offsets :
          LogRead(o).err = "" =>
              /\ o \in DOMAIN appended
              /\ LogRead(o).rec = [value |-> appended[o], offset |-> o]

C12_Step == (snap.at = "crashed" /\ last'.op = "NewLog" /\ last'.err = "") => Recovered'

C12_CrashReopen == [][C12_Step]_vars

----------------------------------------------------------------------------
(* C13: a log whose Append failed because the active segment's index is out   *)
(* of space is not left wedged: after the failure the active segment is one   *)
(* whose index takes another entry (the full segment was rolled), so that     *)
(* the next Append succeeds.  Only Log.Append rolls segments and nothing but  *)
(* an Append writes an index, so a segment that is still full after the       *)
(* failed call is full for every later Append (C13_WedgeStays).               *)
Full == activeSegment \in InList /\ indexWriteFails(segs[activeSegment].index.size)

Wedged == phase = "open" /\ segs[activeSegment].open /\ Full

C13_NotWedged == (last.op = "Append" /\ last.err = "EOF") => ~Wedged

(* once the index of the active segment is full, it is full as long as the
   active segment is in the list, across Close and NewLog too *)
C13_WedgeStays == [][(Full /\ activeSegment' \in InList') => Full']_vars

----------------------------------------------------------------------------
(* C14: what Log.Reader yields is the concatenation of the listed segments'   *)
(* stores in list order; its length is the sum of the store sizes; and read   *)
(* as [8-byte length][payload] frames it is the sequence of the appended      *)
(* records of the listed segments, in offset order.                           *)
RECURSIVE Frames(_, _)
Frames(bytes, pos) ==
    IF pos >= Len(bytes) THEN <<>>
    ELSE LET r == storeRead(bytes, pos)
         IN  IF r.err # "" THEN << [err |-> r.err] >>
             ELSE << Unmarshal(r.b) >> \o Frames(bytes, pos + lenWidth + Len(r.b))

RECURSIVE SizesFrom(_)
SizesFrom(i) ==
    IF i > Len(segments) THEN 0 ELSE segs[segments[i]].store.size + SizesFrom(i + 1)

RECURSIVE RecordsOf(_, _)
RecordsOf(i, o) ==
    IF i > Len(segments) THEN <<>>
    ELSE IF o >= segs[segments[i]].nextOffset
         THEN IF i = Len(segments) THEN <<>>
              ELSE RecordsOf(i + 1, segs[segments[i + 1]].baseOffset)
         ELSE << [value |-> appended[o], offset |-> o] >> \o RecordsOf(i, o + 1)

AppendedRecords == IF segments = <<>> THEN <<>> ELSE RecordsOf(1, segs[segments[1]].baseOffset)

C14_Reader ==
    last.op = "Reader" =>
        /\ last.ret = SizesFrom(1)
        /\ Len(ReaderBytes) = last.ret
        /\ Frames(ReaderBytes, 0) = AppendedRecords

----------------------------------------------------------------------------
(* C15: on a segment whose index holds exactly N entries and whose store      *)
(* limit is not reached, the Append that follows k < N successful ones        *)
(* returns baseOffset + k and the record is readable at once; the Append      *)
(* that follows N successful ones fails with end of space, leaves nextOffset  *)
(* and the index as they were, and IsMaxed is true; after Remove and          *)
(* newSegment at the same base offset nextOffset = baseOffset and IsMaxed is  *)
(* false.                                                                     *)
IndexEntries == Config.MaxIndexBytes \div entWidth

C15_Step ==
    LET a == activeSegment
        k == expect - a
    IN  /\ last'.op = "Append" =>
              IF k < IndexEntries
              THEN /\ last'.err = ""
                   /\ last'.ret = a + k
                   /\ segmentRead(segs'[a], files'[a], a + k)
                          = [err |-> "", rec |-> [value |-> appended'[a + k], offset |-> a + k]]
              ELSE /\ last'.err = "EOF"
                   /\ segs'[a].nextOffset = segs[a].nextOffset
                   /\ segs'[a].index = segs[a].index
                   /\ files'[a].ents = files[a].ents
                   /\ IsMaxed(segs'[a])
        /\ last'.op = "Remove" =>
              /\ segs'[a].nextOffset = a
              /\ ~IsMaxed(segs'[a])

C15_Segment == [][C15_Step]_vars

(* the Append after the one that filled a three-entry index has failed *)
C15_Witness ==
    /\ last.op = "Append" /\ last.err = "EOF"
    /\ IndexEntries = 3
    /\ expect = activeSegment + IndexEntries
    /\ segs[activeSegment].nextOffset = activeSegment + 3
    /\ IsMaxed(segs[activeSegment])

----------------------------------------------------------------------------
(* C16: on an index on which n entries were written, Read(i) returns the      *)
(* position written for entry i when 0 <= i < n and fails with EOF when       *)
(* i >= n; Read(-1) fails when n = 0 and returns the last entry when n > 0.   *)
Written == Cardinality(DOMAIN appended)

ReadsRight(in, e) ==
    /\ (0 <= in /\ in < Written) => (e.err = "" /\ e.off = in /\ e.pos = appended[in])
    /\ in >= Written => e.err = "EOF"
    /\ (in = -1 /\ Written = 0) => e.err # ""
    /\ (in = -1 /\ Written > 0) =>
          (e.err = "" /\ e.off = Written - 1 /\ e.pos = appended[Written - 1])

C16_IndexRead ==
    /\ \A in \in IndexReadArgs :
          ReadsRight(in, indexRead(files[0].ents, segs[0].index.size, in))
    /\ last.op = "Read" =>
          ReadsRight(last.arg, [err |-> last.err, off |-> last.rec.offset, pos |-> last.ret])

(* Read(-1) has returned the second of two entries, written at a position other than 0 *)
C16_Witness ==
    /\ last.op = "Read" /\ last.arg = -1 /\ last.err = ""
    /\ Written = 2
    /\ last.rec.offset = 1
    /\ last.ret = appended[1] /\ last.ret # 0

----------------------------------------------------------------------------
----------------------------------------------------------------------------
(* C18: for every segment whose files exist, the number of index entries      *)
(* (index.size / entWidth) is nextOffset - baseOffset, entry N holds the      *)
(* relative offset N, and its position is the one store.Append returned for   *)
(* record baseOffset + N: the sum of the frames appended before it, where     *)
(* the frame of that record begins.                                           *)
RECURSIVE PosOf(_, _)
PosOf(b, n) ==
    IF n = 0 THEN 0
    ELSE PosOf(b, n - 1) + lenWidth + Len(Marshal(appended[b + n - 1], b + n - 1))

EntryRight(b, n) ==
    LET e == Slot(files[b].ents, n)
        r == storeRead(Flushed(files[b].store, segs[b].store), e.pos)
    IN  /\ e.off = n
        /\ e.pos = PosOf(b, n)
        /\ r.err = ""
        /\ r.b = Marshal(appended[b + n], b + n)

C18_IndexMatchesStore ==
    \A b \in DOMAIN segs \cap DOMAIN files :
        /\ segs[b].index.size = entWidth * (segs[b].nextOffset - segs[b].baseOffset)
        /\ \A n \in 0 .. (segs[b].nextOffset - segs[b].baseOffset - 1) : EntryRight(b, n)

(* a log opened from its directory, with a first segment of two records *)
C18_Witness ==
    /\ phase = "open"
    /\ last.op = "NewLog" /\ last.err = ""
    /\ segments # <<>>
    /\ segs[segments[1]].nextOffset - segs[segments[1]].baseOffset = 2
    /\ Slot(files[segments[1]].ents, 1).pos > 0
    /\ C18_IndexMatchesStore

----------------------------------------------------------------------------
(* C19: store.size is always the number of bytes in the file plus the bytes   *)
(* in the write buffer; Append(p) returns the size before the call as the     *)
(* position and 8 + len(p) as n, and adds n to size; Read and ReadAt leave    *)
(* size as it was.                                                            *)
SizeRight == segs[0].store.size = Len(files[0].store) + Len(segs[0].store.buf)

C19_Step ==
    /\ SizeRight'
    /\ last'.op = "Append" =>
          /\ last'.pos = segs[0].store.size
          /\ last'.n = lenWidth + last'.arg
          /\ segs'[0].store.size = segs[0].store.size + last'.n
    /\ last'.op \in {"Read", "ReadAt"} => segs'[0].store.size = segs[0].store.size

C19_StoreSize == SizeRight /\ [][C19_Step]_vars

(* a second Append, made after a Read had flushed the first *)
C19_Witness ==
    /\ last.op = "Append" /\ last.pos > 0
    /\ files[0].store # <<>>
    /\ segs[0].store.buf # <<>>
    /\ SizeRight

----------------------------------------------------------------------------
(* C20: Log.Append changes only the active segment.  Every other segment of   *)
(* the list has the same object (nextOffset, index size, store) and the same  *)
(* files (index entries, store bytes) after the call as before, whether the   *)
(* call succeeds, fails or rolls; the list keeps its segments in their        *)
(* order, and a rollover adds the new segment at the end and leaves the       *)
(* segment that was active open, with what the append itself wrote.           *)
C20_Step ==
    last'.op = "Append" =>
        /\ \A b \in InList \ {activeSegment} :
              /\ b \in DOMAIN segs' /\ segs'[b] = segs[b]
              /\ b \in DOMAIN files' /\ files'[b] = files[b]
        /\ Len(segments') >= Len(segments)
        /\ SubSeq(segments', 1, Len(segments)) = segments
        /\ activeSegment' # activeSegment =>
              /\ segments' = Append(segments, activeSegment')
              /\ \E v \in Values :
                    LET r == segmentAppend(segs[activeSegment], files[activeSegment], v)
                    IN  /\ r.err = ""
                        /\ segs'[activeSegment] = r.seg
                        /\ files'[activeSegment] = r.file

C20_AppendFrame == [][C20_Step]_vars

(* an Append has returned on a log of three segments *)
C20_Witness ==
    /\ phase = "open"
    /\ last.op = "Append"
    /\ Len(segments) = 3
    /\ activeSegment = segments[3]
    /\ segs[segments[1]].open /\ segs[segments[2]].open

----------------------------------------------------------------------------
(* C21: no goroutine writes or closes the index of a segment while another    *)
(* goroutine reads, writes or closes the index of the same segment; in        *)
(* particular no Append or Read is inside a segment that is being closed or   *)
(* removed.                                                                   *)
Exclusive(t) == last[t].pc \in {"index.Write", "index.Close"}

Accessing(t) == last[t].pc \in {"index.Write", "index.Read", "index.Close"}

Overlap(t, u) ==
    /\ t # u
    /\ Exclusive(t)
    /\ Accessing(u)
    /\ last[t].segs \cap last[u].segs # {}

C21_NoIndexOverlap == \A t, u \in Threads : ~Overlap(t, u)

(* among the calls that take the lock no two overlap on an index *)
C21_LockedCallsExclusive ==
    \A t, u \in Threads :
        Overlap(t, u) => (last[t].op \in Unlocked \/ last[u].op \in Unlocked)

----------------------------------------------------------------------------
(* C22: in the in-memory Log the Append that takes the mutex after i others   *)
(* returns i and stores the record with Offset = i; Read(o) returns the       *)
(* record appended at o when o is below the number of records and             *)
(* ErrOffsetNotFound otherwise; no step changes or removes a stored record;   *)
(* and handleConsume answers 404 exactly when Log.Read returned               *)
(* ErrOffsetNotFound.                                                         *)
Appends == { "Append", "handleProduce" }

C22_Step ==
    /\ Len(appended') >= Len(appended)
    /\ SubSeq(appended', 1, Len(appended)) = appended
    /\ \A i \in 1 .. Len(appended') : appended'[i].offset = i - 1
    /\ (last'.op \in Appends /\ last'.err = "") =>
          /\ Len(appended') = Len(appended) + 1
          /\ appended'[Len(appended')] = [value |-> last'.rec.value, offset |-> expect]
          /\ Len(appended) = expect
          /\ last'.op = "Append" => last'.ret = expect
          /\ last'.op = "handleProduce" => last'.rec.offset = expect
    /\ last'.op = "Read" =>
          IF last'.arg < Len(appended)
          THEN last'.err = "" /\ last'.rec = appended[last'.arg + 1]
          ELSE last'.err = ErrOffsetNotFound
    /\ last'.op = "handleConsume" =>
          /\ last'.ret = StatusNotFound <=> last'.err = ErrOffsetNotFound
          /\ last'.err = ErrOffsetNotFound <=> (last'.err # "decode" /\ last'.arg >= Len(appended))
          /\ last'.ret = StatusOK => last'.rec = appended[last'.arg + 1]

C22_ServerLog == [][C22_Step]_vars

(* a consume of the offset after the last of two records was answered 404 *)
C22_Witness ==
    /\ last.op = "handleConsume"
    /\ last.ret = StatusNotFound
    /\ last.arg = Len(appended)
    /\ Len(appended) = 2
    /\ appended[2].offset = 1

====
